---- MODULE Spec2Model ----
(***************************************************************************)
(* DANE worker / handler / job coordination layer.                         *)
(*                                                                         *)
(*   Spec        base_worker: the consumption loop, the background task    *)
(*               per accepted message and the ack+reply hand-off           *)
(*   HandlerSpec base_handler: the task state machine of run/retry/callback*)
(*   JobSpec     Job: set_api(), register(), refresh(), apply(), run() and *)
(*               retry() against a Handler Contract                        *)
(*   BindingSpec base_worker constructed with one or several binding       *)
(*               patterns, and requests of any routing key                 *)
(*   RoundTripSpec Job.to_json followed by Job.from_json                   *)
(***************************************************************************)
EXTENDS Integers, Sequences, FiniteSets, TLC

VARIABLES
    queue,       \* broker: messages routed to the worker's queue, not yet delivered
    delivered,   \* delivered[tag]: the (method, props, body) of delivery tag `tag`
    unacked,     \* broker: delivery tags delivered and not yet acknowledged
    thread,      \* thread[tag]: the background thread spawned for delivery `tag`
    calls,       \* calls[tag]: invocations of the domain callback for delivery `tag`
    deferred,    \* connection.add_callback_threadsafe: callbacks waiting for the loop
    log,         \* broker I/O performed on the channel, in order, with the executing context
    consuming,   \* the consumption loop: "idle", "consuming" (run()), "stopped", "failed"
    published,   \* number of request messages clients have published so far
    binding_key, \* the worker's binding_key attribute: the list of patterns
    bound,       \* broker: the patterns bound to the worker's queue
    sent_keys,        \* the routing key of every request published, in order
    in_flight_at_end, \* the deliveries whose thread had not ended when the loop ended
    roundtrip,   \* a Job, the JSON document to_json makes of it, the Job from_json makes of that
    taskState,   \* handler: persisted state code of each task
    dispatched,  \* handler: task messages submitted to the worker queue, per task
    lastOp,      \* handler: the last run/retry/callback operation and its effect
    jobs,        \* Job instances: job_id, api, response (a reference into dicts), tasks
    dicts,       \* the dict objects the Jobs' response attributes refer to
    apiCalls,    \* Handler Contract calls made by the Jobs, in order
    lastRegister, \* the last register() call: the Job, its outcome, before and after
    lastRefresh, \* the last refresh() call: the Job, its outcome, before and after
    treeCalls    \* the apply(), run() and retry() calls made on the Jobs, in order

workerVars == <<queue, delivered, unacked, thread, calls, deferred, log, consuming,
                published, binding_key, bound, sent_keys, in_flight_at_end>>
handlerVars == <<taskState, dispatched, lastOp>>
jobVars == <<jobs, dicts, apiCalls, lastRegister, lastRefresh, treeCalls>>
vars == <<workerVars, handlerVars, jobVars, roundtrip>>

None == "None"

(***************************************************************************)
(* Bounds of the model.                                                    *)
(***************************************************************************)
MaxMsgs == 3
MaxDispatch == 3
MaxRegisters == 2
NHandlerTasks == 2
NJobs == 2
NTasks == 2
MaxPriority == 2

(***************************************************************************)
(* json.dumps of a reply dict, with Python's default separators.           *)
(***************************************************************************)
json_dumps(d) ==
    "{\"state\": " \o ToString(d.state) \o ", \"message\": \"" \o d.message \o "\"}"


(***************************************************************************)
(* Request payloads.  A body is described by what json.loads makes of it:  *)
(* form "text" is text that is not JSON ("not-json"), "array" a JSON value *)
(* that is no object ("[1, 2]"), "object" a JSON object with the given     *)
(* keys, whose "tasks" value has the given JSON type.                      *)
(***************************************************************************)
InitParams ==
    {"source_url", "source_id", "source_set", "tasks", "job_id", "metadata",
     "priority", "response", "api"}

RequiredParams == {"source_url", "source_id", "source_set", "tasks"}

Bodies ==
    { [form |-> "text",   keys |-> {},                                tasks |-> None],
      [form |-> "array",  keys |-> {},                                tasks |-> None],
      [form |-> "object", keys |-> {"source_url", "source_id"},       tasks |-> None],
      [form |-> "object", keys |-> RequiredParams \cup {"bogus"},     tasks |-> "dict"],
      [form |-> "object", keys |-> RequiredParams,                    tasks |-> "int"],
      [form |-> "object", keys |-> RequiredParams \cup {"priority"},  tasks |-> "dict"],
      [form |-> "object", keys |-> InitParams \ {"api"},              tasks |-> "str"] }

\* What the domain callback of a concrete worker may return: a dict or a str.
CallbackReturns ==
    { [type |-> "dict", state |-> 200, message |-> "ok", text |-> ""],
      [type |-> "dict", state |-> 503, message |-> "busy", text |-> ""],
      [type |-> "str",  state |-> 0,   message |-> "",
       text |-> "{\"state\": 200, \"message\": \"done\"}"] }

\* The n-th request a client publishes: reply_to and correlation_id are its own.
Request(n, b) ==
    [body |-> b, reply_to |-> "R" \o ToString(n % 2),
     correlation_id |-> "C" \o ToString(n)]

(***************************************************************************)
(* Job.from_json: json.loads, then the Job constructor on the keywords.    *)
(***************************************************************************)
Raised(e, m) == [exc |-> e, msg |-> m]
Returned == [exc |-> "none", msg |-> ""]

json_loads(body) ==
    IF body.form = "text"
    THEN Raised("JSONDecodeError", "Expecting value: line 1 column 1 (char 0)")
    ELSE Returned

\* The Job constructor: the call binds the keywords, then __init__ checks `tasks`.
\* A JSON value is never a taskContainer, so only str and dict pass.
Job_init(data) ==
    IF data.form # "object"
    THEN Raised("TypeError", "argument after ** must be a mapping")
    ELSE IF ~(data.keys \subseteq InitParams)
    THEN Raised("TypeError", "unexpected keyword argument")
    ELSE IF ~(RequiredParams \subseteq data.keys)
    THEN Raised("TypeError", "missing required positional arguments")
    ELSE IF data.tasks \notin {"str", "dict"}
    THEN Raised("TypeError", "Tasks should be Task, taskContainer subclass, or JSON serialised task_str")
    ELSE Returned

from_json(json_str) ==
    IF json_loads(json_str).exc # "none"
    THEN json_loads(json_str)
    ELSE Job_init(json_str)

(***************************************************************************)
(* base_worker                                                             *)
(***************************************************************************)
\* basic_qos with a relaxed prefetch limit.
prefetch_relaxed == 1 + 1

prefetch_count == 1

InvalidFormat == [state |-> 400, message |-> "Invalid job format, unable to proceed"]

Unhandled(e) == [state |-> 500, message |-> "Unhandled error: " \o e.msg]

\* Every parse failure reported as a malformed job.
parse_failure_always_400(e) == InvalidFormat

\* _callback, the except clauses: the reply for a parse that raised e.
parse_failure_response(e) ==
    IF e.exc = "TypeError" THEN InvalidFormat ELSE Unhandled(e)

PublishEvent(response, props, ctx) ==
    [op |-> "publish", tag |-> 0, ctx |-> ctx, exchange |-> "",
     routing_key |-> props.reply_to, correlation_id |-> props.correlation_id,
     delivery_mode |-> 2, body |-> response]

AckEvent(tag, ctx) ==
    [op |-> "ack", tag |-> tag, ctx |-> ctx, exchange |-> "", routing_key |-> "",
     correlation_id |-> "", delivery_mode |-> 0, body |-> ""]

\* basic_ack before basic_publish.
ack_before_reply_io(response, tag, props, ctx) ==
    <<AckEvent(tag, ctx), PublishEvent(response, props, ctx)>>

\* _ack_and_reply: basic_publish, then basic_ack, on the context `ctx` that calls it.
ack_and_reply_io(response, tag, props, ctx) ==
    <<PublishEvent(response, props, ctx), AckEvent(tag, ctx)>>

_ack_and_reply(response, tag, props, ctx) ==
    /\ log' = log \o ack_and_reply_io(response, tag, props, ctx)
    /\ unacked' = (unacked \cup {tag}) \ {tag}

(***************************************************************************)
(* Topology.  A pattern and a routing key are sequences of words ("a.*" is *)
(* <<"a", "*">>); the binding_key argument is a str or a list of str.      *)
(***************************************************************************)
Str(p) == [type |-> "str", str |-> p, list |-> <<>>]

List(ps) == [type |-> "list", str |-> <<>>, list |-> ps]

BindingKeyArgs ==
    { Str(<<"a", "*">>),
      List(<<>>),
      List(<<(<<"a", "*">>)>>),
      List(<<(<<"a", "*">>), (<<"#", "b">>)>>),
      List(<<(<<"a", "*">>), (<<"a", "#">>), (<<"#", "b">>)>>) }

RoutingKeys == { <<"a", "b">>, <<"a", "c">>, <<"c", "b">>, <<"c">> }

\* __init__ that binds the first pattern only.
bind_first_only(arg) ==
    IF arg.type # "list" THEN <<arg.str>>
    ELSE IF arg.list = <<>> THEN <<>> ELSE <<Head(arg.list)>>

\* __init__, lines 50-51: anything but a list becomes a one-element list.
normalise_binding_key(arg) ==
    IF arg.type # "list" THEN <<arg.str>> ELSE arg.list

\* __init__, lines 53-56: queue_bind for every element of the list.
queue_bind(keys) == {keys[i] : i \in DOMAIN keys}

\* The topic exchange: "*" stands for exactly one word, "#" for zero or more.
RECURSIVE Matches(_, _)
Matches(key, pattern) ==
    IF pattern = <<>> THEN key = <<>>
    ELSE IF Head(pattern) = "#"
    THEN Matches(key, Tail(pattern)) \/ (key # <<>> /\ Matches(Tail(key), pattern))
    ELSE /\ key # <<>>
         /\ Head(pattern) \in {"*", Head(key)}
         /\ Matches(Tail(key), Tail(pattern))

\* The exchange routes a message to a queue when a binding of the queue matches,
\* and then puts one copy on the queue, however many bindings match.
Routed(rk) == \E pattern \in bound : Matches(rk, pattern)

\* A client publishes request body b to the exchange with routing key rk.
Route(rk, b) ==
    /\ published < MaxMsgs
    /\ queue' = IF Routed(rk) THEN Append(queue, Request(published + 1, b)) ELSE queue
    /\ published' = published + 1
    /\ sent_keys' = Append(sent_keys, rk)
    /\ UNCHANGED <<delivered, unacked, thread, calls, deferred, log, consuming>>
    /\ UNCHANGED <<binding_key, bound, in_flight_at_end>>
    /\ UNCHANGED <<handlerVars, jobVars, roundtrip>>

\* A client publishes a request that the bindings route to the worker's queue.
Publish ==
    \E b \in Bodies : Route(CHOOSE rk \in RoutingKeys : Routed(rk), b)

\* A client publishes a request with any routing key.
PublishAny ==
    \E b \in Bodies, rk \in RoutingKeys : Route(rk, b)

worker_run ==
    /\ consuming = "idle"
    /\ consuming' = "consuming"
    /\ UNCHANGED <<queue, delivered, unacked, thread, calls, deferred, log, published>>
    /\ UNCHANGED <<binding_key, bound, sent_keys, in_flight_at_end>>
    /\ UNCHANGED <<handlerVars, jobVars, roundtrip>>

\* The deliveries whose background thread has not ended.
Unfinished == {tag \in DOMAIN thread : thread[tag] \in {"started", "running"}}

\* stop() that ends the background threads with the loop.
stop_cancelling ==
    /\ consuming' = IF consuming = "failed" THEN "failed" ELSE "stopped"
    /\ in_flight_at_end' = IF consuming = "consuming" THEN Unfinished
                           ELSE in_flight_at_end
    /\ thread' = [tag \in DOMAIN thread |->
                    IF tag \in Unfinished THEN "cancelled" ELSE thread[tag]]
    /\ UNCHANGED <<queue, delivered, unacked, calls, deferred, log, published>>
    /\ UNCHANGED <<binding_key, bound, sent_keys>>
    /\ UNCHANGED <<handlerVars, jobVars, roundtrip>>

\* stop(): stop_consuming cancels the consumer and start_consuming returns; on a
\* loop that is not consuming there is nothing to cancel.
worker_stop ==
    /\ consuming' = IF consuming = "failed" THEN "failed" ELSE "stopped"
    /\ in_flight_at_end' = IF consuming = "consuming" THEN Unfinished
                           ELSE in_flight_at_end
    /\ UNCHANGED <<queue, delivered, unacked, thread, calls, deferred, log, published>>
    /\ UNCHANGED <<binding_key, bound, sent_keys>>
    /\ UNCHANGED <<handlerVars, jobVars, roundtrip>>

\* The connection fails while run() is consuming: start_consuming raises.
connection_lost ==
    /\ consuming = "consuming"
    /\ consuming' = "failed"
    /\ in_flight_at_end' = Unfinished
    /\ UNCHANGED <<queue, delivered, unacked, thread, calls, deferred, log, published>>
    /\ UNCHANGED <<binding_key, bound, sent_keys>>
    /\ UNCHANGED <<handlerVars, jobVars, roundtrip>>

\* The broker delivers the next message once fewer than prefetch_count are unacked
\* (basic_qos, manual ack), and the loop calls _callback on the connection context.
_callback ==
    /\ consuming = "consuming"
    /\ queue # <<>>
    /\ Cardinality(unacked) < prefetch_count
    /\ LET msg == Head(queue)
           tag == Len(delivered) + 1
           job == from_json(msg.body)
       IN  /\ queue' = Tail(queue)
           /\ delivered' = Append(delivered, msg)
           /\ calls' = Append(calls, 0)
           /\ IF job.exc # "none"
              THEN /\ _ack_and_reply(json_dumps(parse_failure_response(job)), tag, msg, "conn")
                   /\ thread' = Append(thread, "none")
              ELSE /\ thread' = Append(thread, "started")
                   /\ unacked' = unacked \cup {tag}
                   /\ log' = log
    /\ UNCHANGED <<deferred, consuming, published>>
    /\ UNCHANGED <<binding_key, bound, sent_keys, in_flight_at_end>>
    /\ UNCHANGED <<handlerVars, jobVars, roundtrip>>

\* _run, line 93: the background thread enters the domain callback.
run_invoke(tag) ==
    /\ thread[tag] = "started"
    /\ thread' = [thread EXCEPT ![tag] = "running"]
    /\ calls' = [calls EXCEPT ![tag] = @ + 1]
    /\ UNCHANGED <<queue, delivered, unacked, deferred, log, consuming, published>>
    /\ UNCHANGED <<binding_key, bound, sent_keys, in_flight_at_end>>
    /\ UNCHANGED <<handlerVars, jobVars, roundtrip>>

\* The background thread doing the broker I/O itself.
run_direct_io(response, tag, props) ==
    /\ _ack_and_reply(response, tag, props, "thread")
    /\ deferred' = deferred

\* _run, lines 95-100: serialise the result and hand the ack+reply to the loop.
run_handoff(response, tag, props) ==
    /\ deferred' = Append(deferred, [response |-> response, tag |-> tag, props |-> props])
    /\ UNCHANGED <<log, unacked>>

run_return(tag) ==
    /\ thread[tag] = "running"
    /\ \E r \in CallbackReturns :
         run_handoff(IF r.type = "str" THEN r.text
                     ELSE json_dumps([state |-> r.state, message |-> r.message]),
                     tag, delivered[tag])
    /\ thread' = [thread EXCEPT ![tag] = "done"]
    /\ UNCHANGED <<queue, delivered, calls, consuming, published>>
    /\ UNCHANGED <<binding_key, bound, sent_keys, in_flight_at_end>>
    /\ UNCHANGED <<handlerVars, jobVars, roundtrip>>

\* _run, line 93: the domain callback raises; nothing in _run catches it.
run_raise(tag) ==
    /\ thread[tag] = "running"
    /\ thread' = [thread EXCEPT ![tag] = "crashed"]
    /\ UNCHANGED <<queue, delivered, unacked, calls, deferred, log, consuming, published>>
    /\ UNCHANGED <<binding_key, bound, sent_keys, in_flight_at_end>>
    /\ UNCHANGED <<handlerVars, jobVars, roundtrip>>

\* Deferred calls run whether or not the loop is still consuming.
process_deferred_any_time ==
    /\ deferred # <<>>
    /\ _ack_and_reply(Head(deferred).response, Head(deferred).tag,
                      Head(deferred).props, "conn")
    /\ deferred' = Tail(deferred)
    /\ UNCHANGED <<queue, delivered, thread, calls, consuming, published>>
    /\ UNCHANGED <<binding_key, bound, sent_keys, in_flight_at_end>>
    /\ UNCHANGED <<handlerVars, jobVars, roundtrip>>

\* The loop runs the callbacks queued by add_callback_threadsafe, oldest first.
process_deferred ==
    /\ consuming = "consuming"
    /\ deferred # <<>>
    /\ _ack_and_reply(Head(deferred).response, Head(deferred).tag,
                      Head(deferred).props, "conn")
    /\ deferred' = Tail(deferred)
    /\ UNCHANGED <<queue, delivered, thread, calls, consuming, published>>
    /\ UNCHANGED <<binding_key, bound, sent_keys, in_flight_at_end>>
    /\ UNCHANGED <<handlerVars, jobVars, roundtrip>>

\* base_worker.__init__ with binding_key argument `arg`
Constructed(arg) ==
    /\ binding_key = normalise_binding_key(arg)
    /\ bound = queue_bind(normalise_binding_key(arg))
    /\ sent_keys = <<>>
    /\ in_flight_at_end = {}

Started ==
    /\ queue = <<>>
    /\ delivered = <<>>
    /\ unacked = {}
    /\ thread = <<>>
    /\ calls = <<>>
    /\ deferred = <<>>
    /\ log = <<>>
    /\ consuming = "idle"
    /\ published = 0

\* A worker constructed with one pattern, given as a plain string.
WorkerInit == Constructed(Str(<<"a", "*">>)) /\ Started

WorkerNext ==
    \/ Publish
    \/ worker_run
    \/ worker_stop
    \/ connection_lost
    \/ _callback
    \/ \E tag \in DOMAIN thread : run_invoke(tag)
    \/ \E tag \in DOMAIN thread : run_return(tag)
    \/ \E tag \in DOMAIN thread : run_raise(tag)
    \/ process_deferred

\* The worker with requests of any routing key.
BindingNext ==
    \/ PublishAny
    \/ worker_run
    \/ worker_stop
    \/ connection_lost
    \/ _callback
    \/ \E tag \in DOMAIN thread : run_invoke(tag)
    \/ \E tag \in DOMAIN thread : run_return(tag)
    \/ \E tag \in DOMAIN thread : run_raise(tag)
    \/ process_deferred


(***************************************************************************)
(* base_handler: the task state machine behind run, retry and callback.    *)
(* The three methods are abstract; their contracts are the docstrings and  *)
(* the state machine of the Handler Contract.                              *)
(***************************************************************************)
HandlerTasks == 1..NHandlerTasks

CallbackStates == {200, 400, 500, 502, 503}

Op(op, t, to, rejected, sent) ==
    [op |-> op, task |-> t, from |-> taskState[t], to |-> to, rejected |-> rejected,
     sent |-> sent]

Dispatch(op, t) ==
    /\ taskState' = [taskState EXCEPT ![t] = 102]
    /\ dispatched' = [dispatched EXCEPT ![t] = @ + 1]
    /\ lastOp' = Op(op, t, 102, FALSE, 1)

Reject(op, t) ==
    /\ lastOp' = Op(op, t, taskState[t], TRUE, 0)
    /\ UNCHANGED <<taskState, dispatched>>

handler_run(t) ==
    /\ dispatched[t] < MaxDispatch
    /\ IF taskState[t] = 201 THEN Dispatch("run", t) ELSE Reject("run", t)
    /\ UNCHANGED <<workerVars, jobVars, roundtrip>>

\* retry that re-dispatches whatever state the task is in.
retry_any_state(t) ==
    /\ dispatched[t] < MaxDispatch
    /\ Dispatch("retry", t)
    /\ UNCHANGED <<workerVars, jobVars, roundtrip>>

handler_retry(t) ==
    /\ dispatched[t] < MaxDispatch
    /\ IF taskState[t] \in {502, 503} THEN Dispatch("retry", t) ELSE Reject("retry", t)
    /\ UNCHANGED <<workerVars, jobVars, roundtrip>>

\* callback that stores the reply's state whatever state the task is in.
callback_any_state(t, state) ==
    /\ taskState' = [taskState EXCEPT ![t] = state]
    /\ lastOp' = Op("callback", t, state, FALSE, 0)
    /\ UNCHANGED dispatched
    /\ UNCHANGED <<workerVars, jobVars, roundtrip>>

handler_callback(t, state) ==
    /\ IF taskState[t] = 102
       THEN /\ taskState' = [taskState EXCEPT ![t] = state]
            /\ lastOp' = Op("callback", t, state, FALSE, 0)
            /\ UNCHANGED dispatched
       ELSE Reject("callback", t)
    /\ UNCHANGED <<workerVars, jobVars, roundtrip>>

HandlerInit ==
    /\ taskState = [t \in HandlerTasks |-> 201]
    /\ dispatched = [t \in HandlerTasks |-> 0]
    /\ lastOp = [op |-> "none", task |-> 1, from |-> 201, to |-> 201, rejected |-> FALSE,
                 sent |-> 0]

HandlerNext ==
    \/ \E t \in HandlerTasks : handler_run(t)
    \/ \E t \in HandlerTasks : handler_retry(t)
    \/ \E t \in HandlerTasks, state \in CallbackStates : handler_callback(t, state)

(***************************************************************************)
(* Job                                                                     *)
(***************************************************************************)
JobIds == 1..NJobs

\* dicts as sets of <<key, value>> pairs
HasKey(d, k) == \E p \in d : p[1] = k
Get(d, k) == (CHOOSE p \in d : p[1] = k)[2]
Put(d, k, v) == {p \in d : p[1] # k} \cup {<<k, v>>}
Update(d, e) == {p \in d : ~HasKey(e, p[1])} \cup e

\* Job.__init__: dict 0 is the default `{}` of the response parameter, dict j the
\* mapping passed explicitly to Job j.  The Jobs are constructed without response,
\* the last one with or without.
NewJob(job_id, api, response) ==
    [source_url |-> "http://127.0.0.1/example", source_id |-> "ITM123",
     source_set |-> "NISV", api |-> api, job_id |-> job_id,
     tasks |-> [k \in 1..NTasks |-> [task_id |-> None, api |-> api]],
     metadata |-> {}, priority |-> 1, response |-> response]

\* base_handler.get_dirs: the TEMP and OUT directories of the job.
get_dirs(j) ==
    {<<"TEMP_FOLDER", "temp" \o ToString(j)>>, <<"OUT_FOLDER", "out" \o ToString(j)>>}

\* A Handler Contract call by Job j: the job id it passes, and whether it returns.
Call(fn, j, job_id, ok) == [fn |-> fn, job |-> j, job_id |-> job_id, ok |-> ok]

\* The ids the handler hands out: one more than the calls it has answered.
NextId(fn) ==
    Cardinality({i \in DOMAIN apiCalls : apiCalls[i].fn = fn /\ apiCalls[i].ok}) + 1

\* register() and refresh() calls that got past the guard: each starts with get_dirs,
\* respectively jobFromJobId.
Attempts ==
    Cardinality({i \in DOMAIN apiCalls : apiCalls[i].fn \in {"get_dirs", "jobFromJobId"}})

\* The calls on the Jobs so far that did anything: the attempts, and the calls that
\* were delegated to the task tree.  The Jobs are followed until MaxRegisters of
\* them have been made.
Calls == Attempts + Len(treeCalls)

\* register() that only checks for an endpoint.
register_guard_api_only(job) ==
    IF job.api = None THEN "MissingEndpointError" ELSE "none"

\* register(), lines 110-114: the error raised before anything is done.
register_guard(job) ==
    IF job.job_id # None THEN "APIRegistrationError"
    ELSE IF job.api = None THEN "MissingEndpointError"
    ELSE "none"

\* register(), lines 116-117
EnsureShared(d) == IF HasKey(d, "SHARED") THEN d ELSE Put(d, "SHARED", {})

\* register(), line 119, once get_dirs has returned
MergeDirs(d, j) == Put(d, "SHARED", Update(Get(d, "SHARED"), get_dirs(j)))

\* lastRegister and lastRefresh describe the most recent call on a Job; they hold
\* these values when that call was not a register(), respectively not a refresh().
NoRegister ==
    [job |-> 0, outcome |-> "never", before |-> NewJob(None, None, 0),
     after |-> NewJob(None, None, 0), respBefore |-> {}, respAfter |-> {},
     callsBefore |-> 0, callsAfter |-> 0]

NoRefresh ==
    [job |-> 0, outcome |-> "never", before |-> NewJob(None, None, 0),
     after |-> NewJob(None, None, 0), respBefore |-> {}, respAfter |-> {},
     copy |-> [NewJob(None, None, 0) EXCEPT !.response = {}],
     callsBefore |-> 0, callsAfter |-> 0]

Registered(j, outcome, job, resp, newCalls) ==
    /\ jobs' = [jobs EXCEPT ![j] = job]
    /\ dicts' = [dicts EXCEPT ![jobs[j].response] = resp]
    /\ apiCalls' = apiCalls \o newCalls
    /\ lastRegister' =
         [job |-> j, outcome |-> outcome, before |-> jobs[j], after |-> job,
          respBefore |-> dicts[jobs[j].response], respAfter |-> resp,
          callsBefore |-> Len(apiCalls), callsAfter |-> Len(apiCalls) + Len(newCalls)]
    /\ lastRefresh' = NoRefresh
    /\ UNCHANGED treeCalls

task_register_calls(j, jid) == [i \in 1..NTasks |-> Call("register", j, jid, TRUE)]

\* register() telling the handler to propagate the task ids before the tasks have any.
register_calls_propagate_first(j, jid) ==
    <<Call("get_dirs", j, None, TRUE), Call("register_job", j, None, TRUE),
      Call("propagate_task_ids", j, jid, TRUE)>> \o task_register_calls(j, jid)

\* register(), lines 119-125: the Handler Contract calls of a register() that none of
\* them interrupts, in order; jid is the id register_job returns.
register_calls(j, jid) ==
    <<Call("get_dirs", j, None, TRUE), Call("register_job", j, None, TRUE)>>
    \o task_register_calls(j, jid)
    \o <<Call("propagate_task_ids", j, jid, TRUE)>>

\* The calls made when the n-th of them raises.
Interrupted(cs, n) ==
    [i \in 1..n |-> IF i = n THEN [cs[i] EXCEPT !.ok = FALSE] ELSE cs[i]]

\* register() that keeps the id in a local until every call has returned.
job_id_set_at_the_end(job, jid, completed) ==
    IF completed THEN [job EXCEPT !.job_id = jid] ELSE job

\* register(), line 120: the id is stored as soon as register_job has returned.
job_id_assigned(job, jid, completed) == [job EXCEPT !.job_id = jid]

\* register(), lines 122-123: t.register(job_id=...) is given no endpoint, so a task
\* reaches the handler through the api it holds itself.  The first task of the tree
\* that holds none (NTasks + 1 when every task holds one): its register raises
\* before any Handler Contract call.
first_without_api(tree) ==
    CHOOSE n \in 1..(NTasks + 1) :
       /\ \A i \in 1..(n - 1) : tree[i].api # None
       /\ n <= NTasks => tree[n].api = None

\* Job.register.  `fails` is the Handler Contract call that raises, if any; for the
\* task registrations `k` is the task whose registration raises (k is 1 otherwise,
\* and a call the guard rejects reaches no Handler Contract call that could raise;
\* neither does a call that is not made because an earlier task holds no api).
Job_register(j, fails, k) ==
    /\ Calls < MaxRegisters
    /\ register_guard(jobs[j]) # "none" => fails = "none"
    /\ fails # "register" => k = 1
    /\ fails = "register" => k < first_without_api(jobs[j].tasks)
    /\ fails = "propagate_task_ids" => first_without_api(jobs[j].tasks) > NTasks
    /\ LET job == jobs[j]
           resp == dicts[job.response]
           shared == EnsureShared(resp)
           merged == MergeDirs(shared, j)
           jid == "job" \o ToString(NextId("register_job"))
           cs == register_calls(j, jid)
           m == first_without_api(job.tasks)
           tid(n) == "task" \o ToString(NextId("register") + n - 1)
           withTasks(n, completed) ==
               [job_id_assigned(job, jid, completed) EXCEPT !.tasks =
                   [i \in 1..NTasks |->
                       IF i <= n THEN [job.tasks[i] EXCEPT !.task_id = tid(i)]
                       ELSE job.tasks[i]]]
       IN  IF register_guard(job) # "none"
           THEN Registered(j, register_guard(job), job, resp, <<>>)
           ELSE CASE fails = "get_dirs" ->
                       Registered(j, "get_dirs raised", job, shared, Interrupted(cs, 1))
                  [] fails = "register_job" ->
                       Registered(j, "register_job raised", job, merged,
                                  Interrupted(cs, 2))
                  [] fails = "register" ->
                       Registered(j, "register raised", withTasks(k - 1, FALSE), merged,
                                  Interrupted(cs, 2 + k))
                  [] fails = "propagate_task_ids" ->
                       Registered(j, "propagate_task_ids raised",
                                  withTasks(NTasks, FALSE), merged,
                                  Interrupted(cs, Len(cs)))
                  [] fails = "none" /\ m <= NTasks ->
                       Registered(j, "task without api raised",
                                  withTasks(m - 1, FALSE), merged,
                                  SubSeq(cs, 1, 2 + (m - 1)))
                  [] OTHER ->
                       Registered(j, "ok", withTasks(NTasks, TRUE), merged, cs)
    /\ UNCHANGED <<workerVars, handlerVars, roundtrip>>

\* Job.set_api
Job_set_api(j, api) ==
    /\ Calls < MaxRegisters
    /\ jobs' = [jobs EXCEPT ![j] =
                  [@ EXCEPT !.api = api,
                            !.tasks = [i \in 1..NTasks |-> [@[i] EXCEPT !.api = api]]]]
    /\ lastRegister' = NoRegister
    /\ lastRefresh' = NoRefresh
    /\ UNCHANGED <<dicts, apiCalls, treeCalls>>
    /\ UNCHANGED <<workerVars, handlerVars, roundtrip>>

\* base_handler.jobFromJobId for the id of Job j: the Job the handler reconstructs
\* from what it has persisted.  Its response holds the SHARED directories stored by
\* register_job and the result a worker has reported since, its metadata an
\* annotation added since; `attached` tells whether the handler attaches itself to
\* the Job it returns (the api is not part of what is persisted).
jobFromJobId(j, job, attached) ==
    [job EXCEPT
       !.api = IF attached THEN job.api ELSE None,
       !.tasks = [i \in 1..NTasks |->
                    [task_id |-> job.tasks[i].task_id,
                     api |-> IF attached THEN job.api ELSE None]],
       !.response = {<<"SHARED", get_dirs(j)>>, <<"TASK", {<<"state", "200">>}>>},
       !.metadata = {<<"title", "updated">>}]

\* refresh() that only checks for an endpoint.
refresh_guard_api_only(job) ==
    IF job.api = None THEN "MissingEndpointError" ELSE "none"

\* refresh(), lines 135-140: the error raised before anything is done.
refresh_guard(job) ==
    IF job.job_id = None THEN "APIRegistrationError"
    ELSE IF job.api = None THEN "MissingEndpointError"
    ELSE "none"

\* refresh() that takes over every attribute of the handler's Job.
refresh_takes_all(job, copy) ==
    [copy EXCEPT !.response = job.response]

\* refresh(), lines 143-145: tasks, response and metadata of the handler's Job.
\* The response attribute then refers to the dict of the handler's Job, a new
\* object that no other Job refers to; it takes the Job's own place in dicts.
refresh_assign(job, copy) ==
    [job EXCEPT !.tasks = copy.tasks, !.metadata = copy.metadata]

Refreshed(j, outcome, job, copy, newCalls) ==
    /\ jobs' = [jobs EXCEPT ![j] = job]
    /\ dicts' = IF outcome = "ok" THEN [dicts EXCEPT ![j] = copy.response] ELSE dicts
    /\ apiCalls' = apiCalls \o newCalls
    /\ lastRefresh' =
         [job |-> j, outcome |-> outcome, before |-> jobs[j], after |-> job,
          respBefore |-> dicts[jobs[j].response],
          respAfter |-> IF outcome = "ok" THEN copy.response
                        ELSE dicts[jobs[j].response],
          copy |-> copy,
          callsBefore |-> Len(apiCalls), callsAfter |-> Len(apiCalls) + Len(newCalls)]
    /\ lastRegister' = NoRegister
    /\ UNCHANGED treeCalls

\* Job.refresh.  `raises` tells whether jobFromJobId raises.
Job_refresh(j, raises, attached) ==
    /\ Calls < MaxRegisters
    /\ (refresh_guard(jobs[j]) # "none" \/ raises) => attached
    /\ refresh_guard(jobs[j]) # "none" => ~raises
    /\ LET job == jobs[j]
           copy == jobFromJobId(j, job, attached)
       IN  IF refresh_guard(job) # "none"
           THEN Refreshed(j, refresh_guard(job), job, copy, <<>>)
           ELSE IF raises
           THEN Refreshed(j, "jobFromJobId raised", job, copy,
                          <<Call("jobFromJobId", j, job.job_id, FALSE)>>)
           ELSE Refreshed(j, "ok", [refresh_assign(job, copy) EXCEPT !.response = j],
                          copy, <<Call("jobFromJobId", j, job.job_id, TRUE)>>)
    /\ UNCHANGED <<workerVars, handlerVars, roundtrip>>

\* The functions given to apply(): each sets the api of the task it is given.
ApplyFns == {[attr |-> "api", value |-> api] : api \in {None, "handler"}}

\* taskContainer.apply: fn on every task of the tree.
tasks_apply(tree, fn) == [i \in DOMAIN tree |-> [tree[i] EXCEPT !.api = fn.value]]

TreeCall(j, op, fn) == [job |-> j, op |-> op, fn |-> fn]

\* Job.apply
Job_apply(j, fn) ==
    /\ Calls < MaxRegisters
    /\ jobs' = [jobs EXCEPT ![j].tasks = tasks_apply(@, fn)]
    /\ treeCalls' = Append(treeCalls, TreeCall(j, "apply", fn))
    /\ lastRegister' = NoRegister
    /\ lastRefresh' = NoRefresh
    /\ UNCHANGED <<dicts, apiCalls>>
    /\ UNCHANGED <<workerVars, handlerVars, roundtrip>>

\* The task records of the handler are those of task1 .. task<NHandlerTasks>.
Known(task_id) == \E t \in HandlerTasks : task_id = "task" \o ToString(t)

HandlerTask(task_id) == CHOOSE t \in HandlerTasks : task_id = "task" \o ToString(t)

\* A task reaches the handler when it holds an api and an id.
Reaches(task) == task.api # None /\ task.task_id # None

\* taskContainer.run / retry: the tasks in order, up to the first one that does
\* not reach the handler (its call raises).
Reached(tree) ==
    CHOOSE n \in 0..NTasks :
       /\ \A i \in 1..n : Reaches(tree[i])
       /\ n < NTasks => ~Reaches(tree[n + 1])

\* base_handler.run / retry dispatches the task from these states only.
Dispatches(op, t) ==
    IF op = "run" THEN taskState[t] = 201 ELSE taskState[t] \in {502, 503}

\* Job.run and Job.retry: the tree calls the handler's run, respectively retry,
\* for its tasks.  The call is followed while the tasks it reaches are among the
\* task records and have been dispatched less than MaxDispatch times.
Job_delegate(j, op) ==
    /\ Calls < MaxRegisters
    /\ \A i \in 1..Reached(jobs[j].tasks) : Known(jobs[j].tasks[i].task_id)
    /\ LET tree == jobs[j].tasks
           n == Reached(tree)
           asked == {HandlerTask(tree[i].task_id) : i \in 1..n}
           going == {t \in asked : Dispatches(op, t)}
       IN  /\ \A t \in asked : dispatched[t] < MaxDispatch
           /\ taskState' = [t \in HandlerTasks |->
                               IF t \in going THEN 102 ELSE taskState[t]]
           /\ dispatched' = [t \in HandlerTasks |->
                                IF t \in going THEN dispatched[t] + 1 ELSE dispatched[t]]
           /\ lastOp' = IF n = 0 THEN lastOp
                        ELSE LET t == HandlerTask(tree[n].task_id)
                             IN  IF t \in going THEN Op(op, t, 102, FALSE, 1)
                                 ELSE Op(op, t, taskState[t], TRUE, 0)
    /\ treeCalls' = Append(treeCalls, TreeCall(j, op, [attr |-> "", value |-> None]))
    /\ lastRegister' = NoRegister
    /\ lastRefresh' = NoRefresh
    /\ UNCHANGED <<jobs, dicts, apiCalls>>
    /\ UNCHANGED <<workerVars, roundtrip>>

Job_run(j) == Job_delegate(j, "run")

Job_retry(j) == Job_delegate(j, "retry")

RegisterFailures == {"none", "get_dirs", "register_job", "register", "propagate_task_ids"}

JobRest ==
    /\ dicts = [r \in {0} \cup JobIds |-> {}]
    /\ apiCalls = <<>>
    /\ lastRegister = NoRegister
    /\ lastRefresh = NoRefresh
    /\ treeCalls = <<>>

JobInit ==
    /\ \E r \in {0, NJobs} :
         jobs = [j \in JobIds |-> NewJob(None, None, IF j = NJobs THEN r ELSE 0)]
    /\ JobRest

\* The Jobs of the specifications that are about the worker and the handler.
JobIdle ==
    /\ jobs = [j \in JobIds |-> NewJob(None, None, 0)]
    /\ JobRest

JobNext ==
    \/ \E j \in JobIds, fails \in RegisterFailures, k \in 1..NTasks :
         Job_register(j, fails, k)
    \/ \E j \in JobIds, api \in {None, "handler"} : Job_set_api(j, api)
    \/ \E j \in JobIds, raises, attached \in BOOLEAN : Job_refresh(j, raises, attached)
    \/ \E j \in JobIds, fn \in ApplyFns : Job_apply(j, fn)
    \/ \E j \in JobIds : Job_run(j)
    \/ \E j \in JobIds : Job_retry(j)

(***************************************************************************)
(* Job.to_json and Job.from_json.  A Python value and a JSON value are     *)
(* records [t, s, d]: the type, the text of a scalar, the items of a       *)
(* mapping.  The key of a dict item is a str or an int, the name of a JSON *)
(* object member is text.                                                  *)
(***************************************************************************)
PyStr(s) == [t |-> "str", s |-> s, d |-> {}]
PyInt(n) == [t |-> "int", s |-> ToString(n), d |-> {}]
PyNone == [t |-> "None", s |-> "", d |-> {}]
PyDict(items) == [t |-> "dict", s |-> "", d |-> items]
Key(t, s) == [t |-> t, s |-> s]

JString(s) == [t |-> "string", s |-> s, d |-> {}]
JNumber(s) == [t |-> "number", s |-> s, d |-> {}]
JNull == [t |-> "null", s |-> "", d |-> {}]
JObject(members) == [t |-> "object", s |-> "", d |-> members]

\* json.dumps: a str key names its member, an int key is written as its decimal
\* text.
RECURSIVE dumps(_)
dumps(v) ==
    CASE v.t = "str" -> JString(v.s)
      [] v.t = "int" -> JNumber(v.s)
      [] v.t = "None" -> JNull
      [] v.t = "dict" -> JObject({<<p[1].s, dumps(p[2])>> : p \in v.d})

\* json.loads: the keys of the dict made of an object are str.
RECURSIVE loads(_)
loads(v) ==
    CASE v.t = "string" -> PyStr(v.s)
      [] v.t = "number" -> [t |-> "int", s |-> v.s, d |-> {}]
      [] v.t = "null" -> PyNone
      [] v.t = "object" -> PyDict({<<Key("str", p[1]), loads(p[2])>> : p \in v.d})

\* The task tree: its tasks with their key, id and state, and the api they hold.
Tree(n, registered, api) ==
    [i \in 1..n |->
        [task_key |-> "KEY" \o ToString(i),
         task_id |-> IF registered THEN "task" \o ToString(i) ELSE None,
         task_state |-> IF registered THEN 201 ELSE 0,
         api |-> api]]

\* taskContainer.to_json: every task of the tree, without the api.
tasks_to_json(tree) ==
    [i \in DOMAIN tree |->
        [task_key |-> tree[i].task_key, task_id |-> tree[i].task_id,
         task_state |-> tree[i].task_state]]

\* DANE.utils.parse: the tree of a serialised tree; no api is attached.
parse(doc) ==
    [i \in DOMAIN doc |->
        [task_key |-> doc[i].task_key, task_id |-> doc[i].task_id,
         task_state |-> doc[i].task_state, api |-> None]]

\* taskContainer.set_api
tasks_set_api(tree, api) == [i \in DOMAIN tree |-> [tree[i] EXCEPT !.api = api]]

\* vars(self), in the order __init__ assigns the attributes
Attributes ==
    <<"source_url", "source_id", "source_set", "api", "job_id", "tasks", "metadata",
      "priority", "response">>

Serialised(skip) ==
    {Attributes[i] : i \in DOMAIN Attributes} \ skip

\* to_json that leaves out job_id as well.
to_json_without_job_id(job) ==
    [form |-> "object", keys |-> Serialised({"api", "job_id"}), tasks |-> "dict",
     members |-> [kw \in Serialised({"api", "job_id", "tasks"}) |-> dumps(job[kw])],
     tree |-> tasks_to_json(job.tasks)]

\* Job.to_json: an object with a member for every attribute but api; tasks is the
\* task tree's own document, every other member json.dumps of the attribute.
to_json(job) ==
    [form |-> "object", keys |-> Serialised({"api"}), tasks |-> "dict",
     members |-> [kw \in Serialised({"api", "tasks"}) |-> dumps(job[kw])],
     tree |-> tasks_to_json(job.tasks)]

\* The value __init__ gets for parameter kw: the member, or the default.
Argument(data, kw, default) ==
    IF kw \in data.keys THEN loads(data.members[kw]) ELSE default

\* Job.from_json when it does not raise: the Job that __init__ makes of the
\* members; api is no member, so it is None, also on the tasks.
Job_from_json(data) ==
    [source_url |-> Argument(data, "source_url", PyNone),
     source_id |-> Argument(data, "source_id", PyNone),
     source_set |-> Argument(data, "source_set", PyNone),
     api |-> None,
     job_id |-> Argument(data, "job_id", PyNone),
     tasks |-> tasks_set_api(parse(data.tree), None),
     metadata |-> Argument(data, "metadata", PyDict({})),
     priority |-> Argument(data, "priority", PyInt(1)),
     response |-> Argument(data, "response", PyDict({}))]

Metadatas ==
    { PyDict({}),
      PyDict({<<Key("str", "title"), PyStr("News")>>}),
      PyDict({<<Key("str", "year"), PyInt(1999)>>, <<Key("str", "note"), PyNone>>}),
      PyDict({<<Key("int", "1"), PyStr("first")>>}) }

Responses ==
    { PyDict({}),
      PyDict({<<Key("str", "SHARED"),
                PyDict({<<Key("str", "TEMP_FOLDER"), PyStr("/tmp/1")>>})>>}),
      PyDict({<<Key("str", "SHARED"), PyDict({})>>,
              <<Key("int", "7"), PyDict({<<Key("str", "state"), PyInt(200)>>})>>}) }

\* The Jobs that are serialised: constructed with these arguments, registered or not.
SerialJobs ==
    { [source_url |-> PyStr("http://127.0.0.1/example"), source_id |-> PyStr("ITM123"),
       source_set |-> PyStr("NISV"), api |-> api, job_id |-> job_id,
       tasks |-> Tree(n, job_id # PyNone, api), metadata |-> metadata,
       priority |-> PyInt(priority), response |-> response] :
         api \in {None, "handler"}, job_id \in {PyNone, PyInt(7), PyStr("job1")},
         n \in 1..NTasks, metadata \in Metadatas, priority \in 1..MaxPriority,
         response \in Responses }

RoundTrip(stage, job, doc, back) ==
    [stage |-> stage, job |-> job, doc |-> doc, back |-> back]

\* str(job) / job.to_json()
Job_to_json ==
    /\ roundtrip.stage = "constructed"
    /\ roundtrip' = [roundtrip EXCEPT !.stage = "serialised", !.doc = to_json(roundtrip.job)]
    /\ UNCHANGED <<workerVars, handlerVars, jobVars>>

\* Job.from_json(text)
Job_from_json_call ==
    /\ roundtrip.stage = "serialised"
    /\ roundtrip' =
         IF from_json(roundtrip.doc).exc = "none"
         THEN [roundtrip EXCEPT !.stage = "parsed", !.back = Job_from_json(roundtrip.doc)]
         ELSE [roundtrip EXCEPT !.stage = "raised"]
    /\ UNCHANGED <<workerVars, handlerVars, jobVars>>

NoRoundTrip ==
    LET job == CHOOSE j \in SerialJobs :
                  /\ j.api = None /\ j.job_id = PyNone /\ Len(j.tasks) = 1
                  /\ j.metadata = PyDict({}) /\ j.response = PyDict({})
                  /\ j.priority = PyInt(1)
    IN  roundtrip = RoundTrip("none", job, to_json(job), job)

RoundTripInit ==
    /\ \E job \in SerialJobs : roundtrip = RoundTrip("constructed", job, to_json(job), job)

RoundTripNext ==
    \/ Job_to_json
    \/ Job_from_json_call

Init == WorkerInit /\ HandlerInit /\ JobIdle /\ NoRoundTrip

JobSpecInit == WorkerInit /\ HandlerInit /\ JobInit /\ NoRoundTrip

RoundTripSpecInit == WorkerInit /\ HandlerInit /\ JobIdle /\ RoundTripInit

\* Workers constructed with a single pattern or a list of patterns.
BindingInit ==
    /\ \E arg \in BindingKeyArgs : Constructed(arg) /\ Started
    /\ HandlerInit
    /\ JobIdle
    /\ NoRoundTrip

Spec == Init /\ [][WorkerNext]_vars

HandlerSpec == Init /\ [][HandlerNext]_vars

JobSpec == JobSpecInit /\ [][JobNext]_vars

BindingSpec == BindingInit /\ [][BindingNext]_vars

RoundTripSpec == RoundTripSpecInit /\ [][RoundTripNext]_vars

(***************************************************************************)
(* Properties of the worker (Spec)                                         *)
(***************************************************************************)
Tags == DOMAIN delivered

Valid(tag) == from_json(delivered[tag].body).exc = "none"

\* the publishes that answer delivery `tag`: its correlation_id is its own
Replies(tag) ==
    {i \in DOMAIN log : /\ log[i].op = "publish"
                        /\ log[i].correlation_id = delivered[tag].correlation_id}

Acks(tag) == {i \in DOMAIN log : log[i].op = "ack" /\ log[i].tag = tag}

HandedOff(tag) == \E i \in DOMAIN deferred : deferred[i].tag = tag

\* the background thread of `tag` has ended and the loop has nothing left to run for it
Settled(tag) ==
    /\ thread[tag] \in {"done", "crashed"}
    /\ ~HandedOff(tag)
    /\ consuming = "consuming"

\* C1: for every valid Job payload delivered, the domain callback is invoked exactly
\* once and exactly one reply publish and exactly one ack of that delivery are
\* produced: once the background thread has ended and the running loop has no
\* deferred call left for the delivery, there is one of each.
C1_ExactlyOneCallReplyAck ==
    \A tag \in Tags :
        Valid(tag) /\ Settled(tag) =>
            /\ calls[tag] = 1
            /\ Cardinality(Replies(tag)) = 1
            /\ Cardinality(Acks(tag)) = 1

\* C2: a failing domain callback never leaves the delivery unacknowledged: when the
\* callback has raised, the ack+reply of the delivery has been handed to the loop or
\* has been executed.
C2_FailedCallbackStillAcked ==
    \A tag \in Tags :
        thread[tag] = "crashed" => HandedOff(tag) \/ tag \notin unacked

\* C3: every delivery whose body cannot be parsed into a Job is acknowledged, its
\* reply is state 400 'Invalid job format, unable to proceed', and the domain
\* callback is not invoked for it.
C3_MalformedGets400 ==
    \A tag \in Tags :
        ~Valid(tag) =>
            /\ Cardinality(Acks(tag)) = 1
            /\ Cardinality(Replies(tag)) = 1
            /\ \A i \in Replies(tag) :
                 log[i].body =
                   "{\"state\": 400, \"message\": \"Invalid job format, unable to proceed\"}"
            /\ calls[tag] = 0
            /\ thread[tag] = "none"

Unexpected(tag) == from_json(delivered[tag].body).exc \notin {"none", "TypeError"}

\* C4: a delivery whose parse raises an error other than TypeError is answered with
\* state 500 and 'Unhandled error: ' followed by the error text, and acknowledged,
\* by _callback itself on the connection context: no background thread exists for
\* it, nothing is handed off and the domain callback is not invoked.
C4_UnexpectedParseErrorGets500 ==
    \A tag \in Tags :
        Unexpected(tag) =>
            /\ Cardinality(Acks(tag)) = 1
            /\ tag \notin unacked
            /\ Cardinality(Replies(tag)) = 1
            /\ \A i \in Replies(tag) :
                 /\ log[i].body =
                      "{\"state\": 500, \"message\": \"Unhandled error: "
                      \o from_json(delivered[tag].body).msg \o "\"}"
                 /\ log[i].ctx = "conn"
            /\ \A i \in Acks(tag) : log[i].ctx = "conn"
            /\ thread[tag] = "none"
            /\ ~HandedOff(tag)
            /\ calls[tag] = 0

C4_Witness ==
    \E tag \in Tags :
        /\ Unexpected(tag)
        /\ \E i \in Replies(tag) :
             log[i].body =
               "{\"state\": 500, \"message\": \"Unhandled error: Expecting value: line 1 column 1 (char 0)\"}"

\* C5: every publish and every ack is executed by the connection-owning context; a
\* background thread that has returned has only handed its ack+reply to the loop, so
\* its delivery is unacknowledged for as long as the hand-off is pending.
C5_BrokerIOOnlyOnConnection ==
    /\ \A i \in DOMAIN log : log[i].ctx = "conn"
    /\ \A tag \in Tags :
         thread[tag] = "done" =>
            \/ HandedOff(tag) /\ tag \in unacked /\ Acks(tag) = {}
            \/ ~HandedOff(tag) /\ tag \notin unacked /\ Cardinality(Acks(tag)) = 1

C5_Witness ==
    \E tag \in Tags :
        /\ thread[tag] = "done"
        /\ Acks(tag) # {}
        /\ \E t2 \in Tags : thread[t2] = "done" /\ HandedOff(t2)

\* C6: the log of broker I/O is a sequence of publish/ack pairs: every ack is
\* immediately preceded by the publish of the reply to the same delivery, on the
\* default exchange, with routing key reply_to and the correlation_id of that
\* request, persistent; every publish is immediately followed by that ack.
C6_ReplyThenAckTogether ==
    \A i \in DOMAIN log :
        /\ log[i].op = "ack" =>
             /\ i > 1
             /\ log[i - 1].op = "publish"
             /\ log[i - 1].exchange = ""
             /\ log[i - 1].routing_key = delivered[log[i].tag].reply_to
             /\ log[i - 1].correlation_id = delivered[log[i].tag].correlation_id
             /\ log[i - 1].delivery_mode = 2
        /\ log[i].op = "publish" =>
             /\ i < Len(log)
             /\ log[i + 1].op = "ack"

C6_Witness ==
    /\ Len(log) >= 4
    /\ log[2].op = "ack" /\ log[4].op = "ack"
    /\ log[1].routing_key # log[3].routing_key
    /\ \E tag \in Tags : thread[tag] = "done" /\ Acks(tag) # {}

InFlight == {tag \in Tags : thread[tag] \in {"started", "running"}}

\* C7: at most one background thread is in flight, and no delivery is made while an
\* earlier one is unacknowledged: only the latest delivery can be unacknowledged.
C7_OneInFlight ==
    /\ Cardinality(InFlight) <= 1
    /\ Cardinality(unacked) <= 1
    /\ \A tag \in Tags : \A earlier \in 1..(tag - 1) : earlier \notin unacked

C7_Witness ==
    /\ Len(delivered) >= 2
    /\ thread[1] = "done"
    /\ thread[2] = "running"

(***************************************************************************)
(* Properties of the handler (HandlerSpec)                                 *)
(***************************************************************************)
AllowedTransitions ==
    {<<"run", 201, 102>>, <<"retry", 502, 102>>, <<"retry", 503, 102>>}
    \cup {<<"callback", 102, state>> : state \in {200, 400, 500, 502, 503}}

\* C8: every run, retry or callback that changes a task's state changes it along
\* 201->102 (run), 102->{200,400,500,502,503} (callback) or 502/503->102 (retry), and
\* an operation on a task in state 200 or 400 leaves the state as it is.
C8_TaskStateMachine ==
    /\ taskState[lastOp.task] = lastOp.to
    /\ lastOp.from # lastOp.to => <<lastOp.op, lastOp.from, lastOp.to>> \in AllowedTransitions
    /\ lastOp.from \in {200, 400} => lastOp.to = lastOp.from

C8_Witness ==
    /\ lastOp.op \in {"run", "retry", "callback"}
    /\ lastOp.from = 200
    /\ lastOp.rejected
    /\ \E t \in HandlerTasks : taskState[t] = 400

\* C9: retry of a task in state 502 or 503 sets it to 102 and dispatches one message;
\* retry of a task in any other state is rejected, the state stays and nothing is
\* dispatched.
C9_RetryOnlyFromTransientFailure ==
    lastOp.op = "retry" =>
        IF lastOp.from \in {502, 503}
        THEN /\ ~lastOp.rejected
             /\ lastOp.to = 102
             /\ taskState[lastOp.task] = 102
             /\ lastOp.sent = 1
        ELSE /\ lastOp.rejected
             /\ lastOp.to = lastOp.from
             /\ taskState[lastOp.task] = lastOp.from
             /\ lastOp.sent = 0

C9_Witness ==
    /\ lastOp.op = "retry"
    /\ lastOp.from = 503
    /\ taskState[lastOp.task] = 102
    /\ dispatched[lastOp.task] = 2

(***************************************************************************)
(* Properties of Job.register (JobSpec)                                    *)
(***************************************************************************)
RegisterJobCalls(j) ==
    {i \in DOMAIN apiCalls : apiCalls[i].fn = "register_job" /\ apiCalls[i].job = j}

RejectedRegister ==
    /\ lastRegister.outcome # "never"
    /\ lastRegister.before.job_id # None \/ lastRegister.before.api = None

RegisterRejectionHasNoEffect ==
    RejectedRegister =>
        /\ lastRegister.outcome \in {"APIRegistrationError", "MissingEndpointError"}
        /\ lastRegister.callsAfter = lastRegister.callsBefore
        /\ lastRegister.after = lastRegister.before
        /\ lastRegister.respAfter = lastRegister.respBefore

SetJobIdKept ==
    lastRegister.before.job_id # None =>
        lastRegister.after.job_id = lastRegister.before.job_id

\* C10, as claimed: a register() on a Job with job_id set or without api fails with
\* no Handler Contract call and no change of job_id and response; register_job is
\* contacted at most once per Job and a set job_id never changes.
C10_RegisterJobContactedOnce ==
    /\ RegisterRejectionHasNoEffect
    /\ SetJobIdKept
    /\ \A j \in JobIds : Cardinality(RegisterJobCalls(j)) <= 1

\* C10, amended: a register() on a Job with job_id set or without api fails with no
\* Handler Contract call and no change of job_id and response; register_job returns
\* a job id at most once per Job, is never contacted again once it has, and a set
\* job_id never changes.
C10_RegisterJobSucceedsOnce ==
    /\ RegisterRejectionHasNoEffect
    /\ SetJobIdKept
    /\ \A j \in JobIds :
         /\ Cardinality({i \in RegisterJobCalls(j) : apiCalls[i].ok}) <= 1
         /\ \A i, i2 \in RegisterJobCalls(j) : apiCalls[i].ok => i2 <= i

C10_Witness ==
    /\ lastRegister.outcome = "APIRegistrationError"
    /\ \E i \in RegisterJobCalls(lastRegister.job) : apiCalls[i].ok
    /\ lastRegister.before.api = "handler"

(***************************************************************************)
(* Properties of Job.refresh and of the order of register() (JobSpec)      *)
(***************************************************************************)
RejectedRefresh ==
    lastRefresh.outcome \in {"APIRegistrationError", "MissingEndpointError"}

Unrefreshable(job) == job.job_id = None \/ job.api = None

\* C11: refresh() on a Job that is unregistered (job_id None) or has no Handler
\* Contract always fails, an unregistered Job with APIRegistrationError and a
\* registered one without api with MissingEndpointError; the failing call makes
\* no Handler Contract call and leaves tasks, response and metadata (the whole
\* Job and the dict its response refers to) as they were.
C11_RefreshRejectedWithoutEffect ==
    /\ (lastRefresh.outcome # "never" /\ Unrefreshable(lastRefresh.before))
          => RejectedRefresh
    /\ (lastRefresh.outcome # "never" /\ lastRefresh.before.job_id = None)
          => lastRefresh.outcome = "APIRegistrationError"
    /\ RejectedRefresh =>
          /\ Unrefreshable(lastRefresh.before)
          /\ lastRefresh.callsAfter = lastRefresh.callsBefore
          /\ Len(apiCalls) = lastRefresh.callsBefore
          /\ lastRefresh.after = lastRefresh.before
          /\ jobs[lastRefresh.job] = lastRefresh.before
          /\ lastRefresh.respAfter = lastRefresh.respBefore
          /\ dicts[jobs[lastRefresh.job].response] = lastRefresh.respBefore

\* A registered Job whose api was taken away is refreshed, and an unregistered
\* Job with an api is refreshed.
C11_Witness ==
    /\ RejectedRefresh
    /\ \/ /\ lastRefresh.outcome = "MissingEndpointError"
          /\ lastRefresh.before.job_id # None
          /\ HasKey(lastRefresh.respBefore, "SHARED")
       \/ /\ lastRefresh.outcome = "APIRegistrationError"
          /\ lastRefresh.before.api # None
          /\ apiCalls # <<>>

\* C12: a register() that succeeds calls, in this order, get_dirs, register_job,
\* register of every task with the job id register_job returned, and then
\* propagate_task_ids; when it returns the response has "SHARED" holding the
\* directories of get_dirs, job_id is the id register_job returned and every task
\* has its task id.
C12_RegisterCallOrder ==
    lastRegister.outcome = "ok" =>
       LET r == lastRegister
           cs == SubSeq(apiCalls, r.callsBefore + 1, r.callsAfter)
           jid == r.after.job_id
           returned == Cardinality({i \in 1..(r.callsBefore + 2) :
                                      apiCalls[i].fn = "register_job" /\ apiCalls[i].ok})
       IN  /\ r.before.job_id = None
           /\ Len(cs) = NTasks + 3
           /\ \A i \in 1..Len(cs) : cs[i].ok /\ cs[i].job = r.job
           /\ cs[1].fn = "get_dirs"
           /\ cs[2].fn = "register_job"
           /\ \A i \in 3..(NTasks + 2) : cs[i].fn = "register" /\ cs[i].job_id = jid
           /\ cs[NTasks + 3].fn = "propagate_task_ids"
           /\ cs[NTasks + 3].job_id = jid
           /\ jid = "job" \o ToString(returned)
           /\ HasKey(r.respAfter, "SHARED")
           /\ get_dirs(r.job) \subseteq Get(r.respAfter, "SHARED")
           /\ \A i \in 1..NTasks : r.after.tasks[i].task_id # None
           /\ jobs[r.job] = r.after
           /\ dicts[jobs[r.job].response] = r.respAfter

\* The second register() of the run succeeds, so its calls follow earlier ones.
C12_Witness ==
    /\ lastRegister.outcome = "ok"
    /\ lastRegister.callsBefore > 0
    /\ Get(lastRegister.respAfter, "SHARED") = get_dirs(lastRegister.job)
    /\ lastRegister.after.job_id # None

\* Jobs on which apply() was never called.
NeverApplied(j) ==
    \A i \in DOMAIN treeCalls : ~(treeCalls[i].job = j /\ treeCalls[i].op = "apply")

\* C16: whatever construction, set_api, register and refresh calls a Job has seen
\* (and run and retry, which change no Job), as long as apply() was not called on
\* it, every task in its tree holds the api of the Job.
C16_TasksHoldTheJobsApi ==
    \A j \in JobIds :
       NeverApplied(j) => \A i \in 1..NTasks : jobs[j].tasks[i].api = jobs[j].api

\* Jobs that made no Handler Contract call: never registered past the guard,
\* never refreshed.
Untouched(j) == \A i \in DOMAIN apiCalls : apiCalls[i].job # j

\* C17: every Job is constructed with an empty response; the response of a Job
\* that itself never got past the guard of register() or refresh() is still
\* empty, whatever the other Jobs did.
C17_DefaultMappingsIndependent ==
    \A b \in JobIds : Untouched(b) => dicts[jobs[b].response] = {}

\* C18: a refresh() that succeeds replaces tasks, response and metadata by those
\* of the Job the handler returned, and leaves source_url, source_id,
\* source_set, job_id, priority and api as they were.
C18_RefreshReplacesExactlyThree ==
    lastRefresh.outcome = "ok" =>
       LET r == lastRefresh
       IN  /\ r.after.tasks = r.copy.tasks
           /\ r.respAfter = r.copy.response
           /\ r.after.metadata = r.copy.metadata
           /\ r.after.source_url = r.before.source_url
           /\ r.after.source_id = r.before.source_id
           /\ r.after.source_set = r.before.source_set
           /\ r.after.job_id = r.before.job_id
           /\ r.after.priority = r.before.priority
           /\ r.after.api = r.before.api
           /\ jobs[r.job] = r.after
           /\ dicts[jobs[r.job].response] = r.copy.response
           /\ apiCalls[r.callsAfter] = Call("jobFromJobId", r.job, r.before.job_id, TRUE)

\* The handler's Job differs from the local one in tasks, response, metadata and
\* in its api.
C18_Witness ==
    /\ lastRefresh.outcome = "ok"
    /\ lastRefresh.copy.api # lastRefresh.before.api
    /\ lastRefresh.copy.tasks # lastRefresh.before.tasks
    /\ lastRefresh.copy.metadata # lastRefresh.before.metadata
    /\ lastRefresh.copy.response # lastRefresh.respBefore

\* Jobs one of whose register() calls had a Handler Contract call fail after
\* register_job had returned.
HandlerFailedLate(j) ==
    \E i \in DOMAIN apiCalls :
       /\ apiCalls[i].job = j
       /\ apiCalls[i].fn \in {"register", "propagate_task_ids"}
       /\ ~apiCalls[i].ok

\* Jobs for which register_job has returned and propagate_task_ids has not.
PartlyRegistered(j) ==
    /\ \E i \in DOMAIN apiCalls :
          apiCalls[i].job = j /\ apiCalls[i].fn = "register_job" /\ apiCalls[i].ok
    /\ ~\E i \in DOMAIN apiCalls :
          apiCalls[i].job = j /\ apiCalls[i].fn = "propagate_task_ids" /\ apiCalls[i].ok

\* The task registrations the handler has answered for Job j.
TasksRegistered(j) ==
    Cardinality({i \in DOMAIN apiCalls :
                   apiCalls[i].job = j /\ apiCalls[i].fn = "register" /\ apiCalls[i].ok})

FailedLate ==
    lastRegister.outcome \in
       {"register raised", "task without api raised", "propagate_task_ids raised"}

FailedEarly == lastRegister.outcome \in {"get_dirs raised", "register_job raised"}

\* C20: register() is not atomic.  When a task's registration or propagate_task_ids
\* raises after register_job has returned, the Job keeps the job_id and the SHARED
\* directories, a later register() on it is rejected as already registered, and no
\* later call registers the remaining tasks or propagates the task ids.  When
\* get_dirs or register_job fails, job_id stays None and register() passes its guard
\* again.
C20_RegisterNotAtomic ==
    /\ FailedLate =>
          /\ lastRegister.after.job_id # None
          /\ HasKey(lastRegister.respAfter, "SHARED")
          /\ get_dirs(lastRegister.job) \subseteq Get(lastRegister.respAfter, "SHARED")
          /\ register_guard(lastRegister.after) = "APIRegistrationError"
          /\ jobs[lastRegister.job] = lastRegister.after
          /\ PartlyRegistered(lastRegister.job)
    /\ FailedEarly =>
          /\ lastRegister.after.job_id = None
          /\ register_guard(lastRegister.after) = "none"
          /\ jobs[lastRegister.job] = lastRegister.after
    /\ (lastRegister.outcome # "never" /\ ~FailedLate
        /\ PartlyRegistered(lastRegister.job))
          => /\ lastRegister.outcome = "APIRegistrationError"
             /\ lastRegister.after = lastRegister.before
    /\ \A j \in JobIds :
          PartlyRegistered(j) =>
             /\ register_guard(jobs[j]) = "APIRegistrationError"
             /\ TasksRegistered(j) =
                   Cardinality({i \in 1..NTasks : jobs[j].tasks[i].task_id # None})
    /\ \A i, k \in DOMAIN apiCalls :
          (i < k /\ apiCalls[i].job = apiCalls[k].job) =>
             /\ (apiCalls[i].fn \in {"register", "propagate_task_ids"} /\ ~apiCalls[i].ok)
                   => apiCalls[k].fn = "jobFromJobId"
             /\ (apiCalls[i].fn = "register_job" /\ apiCalls[i].ok)
                   => apiCalls[k].fn \in {"register", "propagate_task_ids", "jobFromJobId"}
             /\ apiCalls[i].fn = "jobFromJobId" => apiCalls[k].fn = "jobFromJobId"

\* A register() is rejected on a Job that has its job_id and an unregistered task,
\* after a Handler Contract call of its first register() failed.
C20_Witness ==
    /\ lastRegister.outcome = "APIRegistrationError"
    /\ HandlerFailedLate(lastRegister.job)
    /\ lastRegister.before.api # None
    /\ \E i \in 1..NTasks : lastRegister.before.tasks[i].task_id = None

(***************************************************************************)
(* Properties of run(), stop() and the bindings (Spec, BindingSpec)        *)
(***************************************************************************)
Ended == consuming \in {"stopped", "failed"}

\* C14: run() ends only by stop() or by a connection failure, and once it has
\* ended it stays ended: a further stop() changes nothing, no message is taken
\* from the queue or delivered, and no background thread is started.  The step that
\* ends the loop leaves the background threads, the callback invocations and the
\* deferred calls as they are, and a thread that was in flight goes on: it can still
\* return from the callback.
C14_StopEndsAcceptanceOnly ==
    /\ [][ /\ (consuming = "consuming" /\ consuming' # "consuming") => Ended'
           /\ Ended =>
                /\ consuming' = consuming
                /\ delivered' = delivered
                /\ unacked' = unacked
                /\ Len(thread') = Len(thread)
                /\ \A i \in 1..Len(queue) : queue'[i] = queue[i]
           /\ consuming' # consuming =>
                /\ thread' = thread
                /\ calls' = calls
                /\ deferred' = deferred
                /\ log' = log
                /\ unacked' = unacked ]_vars
    /\ [](Ended => ENABLED (worker_stop /\ UNCHANGED vars))
    /\ [](\A tag \in DOMAIN thread :
             thread[tag] = "running" => ENABLED run_return(tag))

\* The loop was stopped while a callback was running, the thread has since
\* returned from the callback, and a request is still waiting in the queue.
C14_Witness ==
    /\ consuming = "stopped"
    /\ queue # <<>>
    /\ \E tag \in in_flight_at_end : thread[tag] = "done" /\ calls[tag] = 1

\* C19: an ack+reply is executed only while the loop is consuming.  A delivery
\* whose callback was in flight when the loop ended gets neither a reply nor an
\* ack from this worker and stays unacknowledged, also after its thread has handed
\* the ack+reply to the connection; and no delivery ever has a reply without an ack or
\* an ack without a reply.
C19_NoAckReplyAfterStop ==
    /\ [][log' # log => (consuming = "consuming" /\ consuming' = "consuming")]_vars
    /\ [](\A tag \in in_flight_at_end :
             /\ Ended
             /\ Replies(tag) = {}
             /\ Acks(tag) = {}
             /\ tag \in unacked)
    /\ [](\A tag \in Tags : Cardinality(Replies(tag)) = Cardinality(Acks(tag)))

\* The thread of a delivery that was in flight at stop() has handed off its
\* ack+reply, which stays deferred.
C19_Witness ==
    /\ consuming = "stopped"
    /\ \E tag \in in_flight_at_end :
          /\ thread[tag] = "done"
          /\ HandedOff(tag)
          /\ tag \in unacked
          /\ Replies(tag) = {}

\* The requests published so far that a binding of the queue matches.
Matching == {n \in DOMAIN sent_keys : \E p \in bound : Matches(sent_keys[n], p)}

Copies(n) ==
    Cardinality({i \in DOMAIN queue : queue[i].correlation_id = "C" \o ToString(n)})
    + Cardinality({t \in Tags : delivered[t].correlation_id = "C" \o ToString(n)})

RepliesTo(n) ==
    {i \in DOMAIN log : log[i].op = "publish"
                        /\ log[i].correlation_id = "C" \o ToString(n)}

\* C15: every pattern given to the constructor, as a list or as a single string,
\* is bound to the queue; a request whose routing key matches one or more of the
\* patterns is put on the queue once, delivered once, and once the worker is done
\* with the delivery there is exactly one reply to it.
C15_MatchingMessageOneReply ==
    /\ \A i \in DOMAIN binding_key : binding_key[i] \in bound
    /\ \A n \in Matching :
          /\ Copies(n) = 1
          /\ \A tag \in Tags :
                (delivered[tag].correlation_id = "C" \o ToString(n) /\ Settled(tag))
                   => Cardinality(RepliesTo(n)) = 1

\* C15 without the reply of a delivery whose callback raised: the bindings and
\* the single delivery.
C15_BindingsDeliverOnce ==
    /\ bound = {binding_key[i] : i \in DOMAIN binding_key}
    /\ \A n \in DOMAIN sent_keys : Copies(n) = IF n \in Matching THEN 1 ELSE 0
    /\ \A n \in Matching : Cardinality(RepliesTo(n)) <= 1

(***************************************************************************)
(* Properties of the serialisation (RoundTripSpec)                         *)
(***************************************************************************)
RoundTripFields ==
    {"source_url", "source_id", "source_set", "job_id", "metadata", "priority",
     "response"}

SameFields(a, b) ==
    /\ \A kw \in RoundTripFields : a[kw] = b[kw]
    /\ tasks_to_json(a.tasks) = tasks_to_json(b.tasks)

\* The api is not serialised, and the Job made of the document has none.
ApiNotSerialised ==
    /\ roundtrip.stage \in {"serialised", "parsed"} =>
          /\ "api" \notin roundtrip.doc.keys
          /\ "api" \notin DOMAIN roundtrip.doc.members
    /\ roundtrip.stage = "parsed" =>
          /\ roundtrip.back.api = None
          /\ \A i \in DOMAIN roundtrip.back.tasks : roundtrip.back.tasks[i].api = None

\* Mappings whose keys are all str, as the names of a JSON object are.
RECURSIVE StrKeyed(_)
StrKeyed(v) == \A p \in v.d : p[1].t = "str" /\ StrKeyed(p[2])

\* C13 as stated: from_json(job.to_json()) never raises and gives a Job equal to
\* the original in source_url, source_id, source_set, job_id, metadata, priority
\* and response, with an equal serialised task tree, for every Job; the api is
\* never serialised.
C13_RoundTripEveryJob ==
    /\ roundtrip.stage # "raised"
    /\ roundtrip.stage = "parsed" => SameFields(roundtrip.back, roundtrip.job)
    /\ ApiNotSerialised

\* C13, amended: the same for every Job whose metadata and response have str
\* keys only, at every level.
C13_RoundTripStrKeyed ==
    /\ roundtrip.stage # "raised"
    /\ (/\ roundtrip.stage = "parsed"
        /\ StrKeyed(roundtrip.job.metadata)
        /\ StrKeyed(roundtrip.job.response))
          => SameFields(roundtrip.back, roundtrip.job)
    /\ ApiNotSerialised

\* A registered Job with an api, metadata and SHARED directories went through
\* to_json and from_json.
C13_Witness ==
    /\ roundtrip.stage = "parsed"
    /\ roundtrip.job.api # None
    /\ roundtrip.job.job_id # PyNone
    /\ roundtrip.job.metadata.d # {}
    /\ roundtrip.job.response.d # {}
    /\ StrKeyed(roundtrip.job.metadata)
    /\ StrKeyed(roundtrip.job.response)
    /\ roundtrip.back.api = None
    /\ roundtrip.back # roundtrip.job
====
